---- MODULE Spec2Model ----
(***************************************************************************)
(* Model of emby_autoscan/app.py: the per-directory inventory (one sqlite  *)
(* table per watched directory), the bulk population done at startup, and  *)
(* the reconciliation pass that every monitor thread repeats.              *)
(*                                                                         *)
(* Strings that the program inspects character by character (directory     *)
(* paths, file names) are tuples of one-character strings; table names and *)
(* extensions, which the program only compares, are built from them as     *)
(* strings.  Modification times are naturals 1..MaxMtime; 0 on the disk    *)
(* means "no such file".                                                   *)
(***************************************************************************)
EXTENDS Integers, Sequences, FiniteSets, TLC

(* ------------------------------ bounds -------------------------------- *)

\* modification times the environment may give a file
MaxMtime == 2

(* --------------------------- character data --------------------------- *)

Digits == {"0", "1", "2", "3", "4", "5", "6", "7", "8", "9"}

LowerSeq ==
    << "a", "b", "c", "d", "e", "f", "g", "h", "i", "j", "k", "l", "m",
       "n", "o", "p", "q", "r", "s", "t", "u", "v", "w", "x", "y", "z" >>

UpperSeq ==
    << "A", "B", "C", "D", "E", "F", "G", "H", "I", "J", "K", "L", "M",
       "N", "O", "P", "Q", "R", "S", "T", "U", "V", "W", "X", "Y", "Z" >>

Range(s) == { s[k] : k \in DOMAIN s }

\* str.isalnum() of one character
isalnum(c) == c \in Digits \cup Range(LowerSeq) \cup Range(UpperSeq)

\* str.isdigit() of one character
isdigit(c) == c \in Digits

\* str.lower() of one character
lower(c) ==
    IF c \in Range(UpperSeq)
    THEN LowerSeq[CHOOSE k \in DOMAIN UpperSeq : UpperSeq[k] = c]
    ELSE c

\* the string spelled by a tuple of characters
Str(s) ==
    LET F[k \in 0..Len(s)] == IF k = 0 THEN "" ELSE F[k - 1] \o s[k]
    IN  F[Len(s)]

\* str.rfind, 1-based; 0 when the character does not occur
rfind(s, c) ==
    IF \E k \in DOMAIN s : s[k] = c
    THEN CHOOSE k \in DOMAIN s : s[k] = c /\ \A j \in DOMAIN s : s[j] = c => j <= k
    ELSE 0

(* ------------------------------ constants ----------------------------- *)

ALLOWED_EXTENSIONS ==
    { "mp4", "mkv", "flv", "avi", "wmv", "ts", "rmvb", "webm", "mpg",
      "flac", "m4a", "mp3", "wav", "dsg", "dff", "ape", "aiff",
      "alac", "aac", "ogg", "wma", "opus",
      "strm" }

(* ---------------------------- pure functions -------------------------- *)

\* get_table_name: every non-alphanumeric character becomes "_", a leading
\* digit gets a "_" in front, and the result is prefixed with "table_".
get_table_name(directory) ==
    LET table_name == [k \in 1..Len(directory) |->
                          IF isalnum(directory[k]) THEN directory[k] ELSE "_"]
        escaped == IF Len(table_name) > 0 /\ isdigit(table_name[1])
                   THEN <<"_">> \o table_name
                   ELSE table_name
    IN  IF Len(escaped) > 0 THEN "table_" \o Str(escaped) ELSE "table_default"

\* os.path.join(root, file) for a relative file name
join(root, file) ==
    IF Len(root) > 0 /\ root[Len(root)] = "/"
    THEN root \o file
    ELSE root \o <<"/">> \o file

\* os.path.splitext(path)[1]: from the last dot of the last component, unless
\* that component has nothing but dots before it
splitext(path) ==
    LET sepIndex == rfind(path, "/")
        dotIndex == rfind(path, ".")
    IN  IF dotIndex > sepIndex
           /\ \E k \in (sepIndex + 1)..(dotIndex - 1) : path[k] # "."
        THEN SubSeq(path, dotIndex, Len(path))
        ELSE << >>

\* os.path.splitext(full_path)[1][1:].lower()
file_extension(path) ==
    LET ext == splitext(path)
        rest == SubSeq(ext, 2, Len(ext))
    IN  Str([k \in 1..Len(rest) |-> lower(rest[k])])

\* the extension test left out: every file counts as media
is_allowed_any(path) == TRUE

\* file_extension in ALLOWED_EXTENSIONS
is_allowed(path) == file_extension(path) \in ALLOWED_EXTENSIONS

(* ------------------------- the modelled world -------------------------- *)

\* watched roots that can be given on the command line; the last two differ
\* in one non-alphanumeric character
DirM == << "/", "m" >>
DirT == << "/", "t" >>
DirAB == << "/", "a", "/", "b" >>
DirA_B == << "/", "a", "-", "b" >>

\* file names the environment may create under a root
FileA == << "a", ".", "m", "p", "4" >>
FileB == << "b", ".", "M", "K", "V" >>
FileN == << "n", ".", "t", "x", "t" >>
FileNames == { FileA, FileB, FileN }

\* a start of the program: its command line, the file names the environment
\* uses under each argument, and whether the observers passNo, quiet and
\* owed are kept (they record the past for the properties of one directory
\* and are left at rest where two roots are watched)
Worlds ==
    { [args |-> << DirM >>, files |-> << { FileA, FileB } >>, observed |-> TRUE],
      [args |-> << DirM >>, files |-> << { FileA, FileN } >>, observed |-> TRUE] }

\* starts with two watched roots, the first of them kept empty
WorldsTwo ==
    { [args |-> << DirAB, DirA_B >>, files |-> << {}, { FileA } >>,
       observed |-> FALSE] }

\* Python's None where a time is expected (times are 1..MaxMtime), where a
\* path is expected, and where an update type is expected
None == 0
NoPath == << >>
NoPost == "NoPost"

\* the mapping with no entries
EmptyMap == [p \in {} |-> 0]

\* dict.get(key): the value, or None
Get(map, key) == IF key \in DOMAIN map THEN map[key] ELSE None

\* a mapping with key set to value (dict assignment, INSERT OR REPLACE)
Put(map, key, value) ==
    [k \in DOMAIN map \cup {key} |-> IF k = key THEN value ELSE map[k]]

\* a mapping without key (DELETE ... WHERE path = key; no-op when absent)
Drop(map, key) == [k \in DOMAIN map \ {key} |-> map[k]]

VARIABLES
    argv,        \* sys.argv[1:], the directories to monitor
    names,       \* environment: the file names it uses under argv[i]
    observed,    \* whether passNo, quiet and owed are kept
    rootExists,  \* environment: root -> whether it is an existing directory
    disk,        \* environment: root -> file name -> mtime (0: no such file)
    db,          \* the sqlite file: table name -> (path -> last_modified)
    mpc,         \* main thread: where it is in __main__
    mi,          \* main thread: index into argv of the directory in hand
    mfiles,      \* main thread: populate_database's files still to add
    wasEmpty,    \* main thread: populate_database found the table empty
    pc,          \* monitor thread i: where it is in monitor_directory
    cur,         \* monitor thread i: current_files_on_disk
    ftc,         \* monitor thread i: files_to_check
    dbi,         \* monitor thread i: db_files_info
    todo,        \* monitor thread i: items of files_to_check not yet visited
    inflight,    \* monitor thread i: path notified and not yet added to the db
    dels,        \* monitor thread i: deleted_files not yet visited
    notified,    \* thread -> path -> update types sent for it in this pass
    passNo,      \* monitor thread i: passes started in this run, up to 2
    rootGone,    \* monitor thread i: the walk of this pass found no root
    quiet,       \* argv index i: walks of argv[i] (by populate_database or
                 \* by a pass) since the disk under it last changed, up to 2
    owed,        \* paths found New or Modified by a pass that was killed
                 \* before it added them, unchanged on disk since that
                 \* pass scanned them and not notified since
    lock,        \* db_lock: the thread that holds it, or Free
    at,          \* thread -> where it is with respect to db_lock: the call
                 \* it is at, whether it is inside that call's with block,
                 \* the directory it works for and the items left to visit
    hook         \* the webhook relay (emby_telegram_webhook): its configured
                 \* admins, its clock, message_cache, the Timer objects it
                 \* made and the webhook requests it received

vars == << argv, names, observed, rootExists, disk, db, mpc, mi, mfiles, wasEmpty, pc,
           cur, ftc, dbi, todo, inflight, dels, notified, passNo, rootGone,
           quiet, owed, lock, at, hook >>

lockVars == << lock, at >>
envVars == << rootExists, disk >>
mainVars == << mpc, mi, mfiles, wasEmpty >>
constVars == << argv, names, observed >>
passVars == << cur, ftc, dbi, todo, inflight, dels, passNo, rootGone >>

Roots == Range(argv)
Workers == 1..Len(argv)
MainThread == 0

(* ------------------------------ filesystem ---------------------------- *)

\* os.path.isdir(directory)
isdir(directory) == rootExists[directory]

\* os.walk(directory) joined with each file name, kept when the extension
\* is allowed; a root that is missing yields nothing (os.walk swallows the
\* listing error)
walk_media(directory) ==
    IF rootExists[directory]
    THEN { join(directory, f) :
             f \in { g \in FileNames : disk[directory][g] # 0
                                       /\ is_allowed(join(directory, g)) } }
    ELSE {}

\* os.path.getmtime(path) for a path listed under directory: the mtime, or
\* None when the call raises (FileNotFoundError / OSError)
getmtime(directory, path) ==
    LET found == { f \in FileNames : join(directory, f) = path
                                  /\ rootExists[directory]
                                  /\ disk[directory][f] # 0 }
    IN  IF found = {} THEN None
        ELSE disk[directory][CHOOSE f \in found : TRUE]

(* ------------------------------- notifier ----------------------------- *)

\* create_item(item_path, update_type): the update type POSTed to Emby
create_item(update_type) == update_type

\* process_item_library(item_path): the update type it POSTs, or NoPost when
\* the GET that precedes the POST fails; it always asks for "Created"
process_item_library(reachable) ==
    IF reachable THEN create_item("Created") ELSE NoPost

\* the notifications of one thread, with one more for path
Noted(sent, path, what) ==
    Put(sent, path, Append(IF path \in DOMAIN sent THEN sent[path] ELSE << >>, what))

(* ------------------------------ environment --------------------------- *)

\* the paths a root can hold
PathsOf(d) == { join(d, f) : f \in FileNames }

\* the disk under root d changed: the walks of it so far saw another disk,
\* and what a killed pass had found about the changed paths is superseded
Disturbed(d, paths) ==
    /\ quiet' = [i \in DOMAIN quiet |-> IF argv[i] = d THEN 0 ELSE quiet[i]]
    /\ owed' = owed \ paths

\* a file appears under a root
CreateFile(d, f, m) ==
    /\ rootExists[d] /\ disk[d][f] = 0
    /\ disk' = [disk EXCEPT ![d][f] = m]
    /\ Disturbed(d, {join(d, f)})
    /\ UNCHANGED << constVars, lockVars, hook, rootExists, db, mainVars, pc, passVars, notified >>

\* a file's mtime changes (forwards, or backwards as a restore does)
TouchFile(d, f, m) ==
    /\ disk[d][f] # 0 /\ disk[d][f] # m
    /\ disk' = [disk EXCEPT ![d][f] = m]
    /\ Disturbed(d, {join(d, f)})
    /\ UNCHANGED << constVars, lockVars, hook, rootExists, db, mainVars, pc, passVars, notified >>

\* a file disappears
DeleteFile(d, f) ==
    /\ disk[d][f] # 0
    /\ disk' = [disk EXCEPT ![d][f] = 0]
    /\ Disturbed(d, {join(d, f)})
    /\ UNCHANGED << constVars, lockVars, hook, rootExists, db, mainVars, pc, passVars, notified >>

\* the root goes away (removed, unmounted) with everything under it
RemoveRoot(d) ==
    /\ rootExists[d]
    /\ rootExists' = [rootExists EXCEPT ![d] = FALSE]
    /\ disk' = [disk EXCEPT ![d] = [f \in FileNames |-> 0]]
    /\ Disturbed(d, PathsOf(d))
    /\ UNCHANGED << constVars, lockVars, hook, db, mainVars, pc, passVars, notified >>

\* the root comes back, empty
RestoreRoot(d) ==
    /\ ~rootExists[d]
    /\ rootExists' = [rootExists EXCEPT ![d] = TRUE]
    /\ Disturbed(d, PathsOf(d))
    /\ UNCHANGED << constVars, lockVars, hook, disk, db, mainVars, pc, passVars, notified >>

(* ---------------------------- inventory store -------------------------- *)

\* initialize_database: CREATE TABLE IF NOT EXISTS
initialize_database(store, directory) ==
    LET table_name == get_table_name(directory)
    IN  IF table_name \in DOMAIN store THEN store
        ELSE [t \in DOMAIN store \cup {table_name} |->
                 IF t = table_name THEN EmptyMap ELSE store[t]]

\* is_table_empty answering True whatever the table holds
is_table_empty_always(store, directory) == TRUE

\* is_table_empty: SELECT COUNT(*) = 0; TRUE as well when the query fails
\* (there is no such table)
is_table_empty(store, directory) ==
    LET table_name == get_table_name(directory)
    IN  IF table_name \in DOMAIN store
        THEN Cardinality(DOMAIN store[table_name]) = 0
        ELSE TRUE

\* add_file_to_db with INSERT OR IGNORE: a path already recorded keeps its
\* old last_modified
add_file_to_db_ignore(store, path, last_modified, directory) ==
    LET table_name == get_table_name(directory)
    IN  IF table_name \in DOMAIN store /\ path \notin DOMAIN store[table_name]
        THEN [store EXCEPT ![table_name] = Put(@, path, last_modified)]
        ELSE store

\* add_file_to_db: INSERT OR REPLACE; a failing statement (no such table) is
\* logged and changes nothing
add_file_to_db(store, path, last_modified, directory) ==
    LET table_name == get_table_name(directory)
    IN  IF table_name \in DOMAIN store
        THEN [store EXCEPT ![table_name] = Put(@, path, last_modified)]
        ELSE store

\* remove_file_from_db: DELETE ... WHERE path = ?
remove_file_from_db(store, path, directory) ==
    LET table_name == get_table_name(directory)
    IN  IF table_name \in DOMAIN store
        THEN [store EXCEPT ![table_name] = Drop(@, path)]
        ELSE store

(* ------------------------- reconciliation logic ----------------------- *)

\* the branches with >= in place of >
classify_ge(current_last_modified, db_last_modified) ==
    IF db_last_modified = None THEN "New"
    ELSE IF current_last_modified >= db_last_modified THEN "Modified"
    ELSE "Unchanged"

\* the branch taken at lines 247-257 for one item of files_to_check
classify(current_last_modified, db_last_modified) ==
    IF db_last_modified = None THEN "New"
    ELSE IF current_last_modified > db_last_modified THEN "Modified"
    ELSE "Unchanged"

\* the loop without its first branch: only recorded paths are looked at
changed_files_recorded_only(files_to_check, db_files_info) ==
    { p \in DOMAIN files_to_check \cap DOMAIN db_files_info :
        files_to_check[p] > db_files_info[p] }

\* the items of files_to_check for which the loop does anything
changed_files(files_to_check, db_files_info) ==
    { p \in DOMAIN files_to_check :
        classify(files_to_check[p], Get(db_files_info, p)) # "Unchanged" }

\* the set difference taken the wrong way round
deleted_files_reversed(db_files_info, current_files_on_disk) ==
    current_files_on_disk \ DOMAIN db_files_info

\* deleted_files = db_paths - current_files_on_disk
deleted_files(db_files_info, current_files_on_disk) ==
    DOMAIN db_files_info \ current_files_on_disk

\* where a pass stands once todo, inflight and dels are as given
After(td, fl, dl) ==
    IF td = {} /\ fl = NoPath /\ dl = {} THEN "sleep" ELSE "run"

\* argv[i] has been walked once more
Walked(i) == [quiet EXCEPT ![i] = IF observed /\ @ < 2 THEN @ + 1 ELSE @]

(* ------------------------------ main thread --------------------------- *)

\* the loop over the arguments without the isdir check
MainNextDir_unchecked ==
    /\ mpc = "next"
    /\ IF mi > Len(argv)
       THEN /\ mpc' = IF \A i \in Workers : pc[i] = "none"
                      THEN "exited" ELSE "supervise"
            /\ mi' = mi
       ELSE mpc' = "init" /\ mi' = mi
    /\ UNCHANGED << constVars, lockVars, hook, envVars, db, mfiles, wasEmpty, pc, passVars,
                    notified, quiet, owed >>

\* for directory in directories_to_monitor: the isdir check; after the last
\* directory, exit when no thread was started, supervise otherwise
MainNextDir ==
    /\ mpc = "next"
    /\ IF mi > Len(argv)
       THEN /\ mpc' = IF \A i \in Workers : pc[i] = "none"
                      THEN "exited" ELSE "supervise"
            /\ mi' = mi
       ELSE IF isdir(argv[mi])
            THEN mpc' = "init" /\ mi' = mi
            ELSE mpc' = "next" /\ mi' = mi + 1
    /\ UNCHANGED << constVars, lockVars, hook, envVars, db, mfiles, wasEmpty, pc, passVars,
                    notified, quiet, owed >>

\* initialize_database(directory)
MainInitDb ==
    /\ mpc = "init"
    /\ db' = initialize_database(db, argv[mi])
    /\ mpc' = "populate"
    /\ UNCHANGED << constVars, lockVars, hook, envVars, mi, mfiles, wasEmpty, pc, passVars,
                    notified, quiet, owed >>

\* populate_database(directory) up to the walk: nothing to do unless the
\* table is empty
MainPopulate ==
    /\ mpc = "populate"
    /\ wasEmpty' = is_table_empty(db, argv[mi])
    /\ mfiles' = IF wasEmpty' THEN walk_media(argv[mi]) ELSE {}
    /\ quiet' = IF wasEmpty' THEN Walked(mi) ELSE quiet
    /\ mpc' = IF mfiles' = {} THEN "start" ELSE "popfile"
    /\ UNCHANGED << constVars, lockVars, hook, envVars, db, mi, pc, passVars, notified, owed >>

\* populate_database calling process_item_library for each file it adds
MainPopFile_notifying(path) ==
    /\ mpc = "popfile"
    /\ path \in mfiles
    /\ LET last_modified == getmtime(argv[mi], path)
       IN  /\ db' = IF last_modified = None THEN db
                    ELSE add_file_to_db(db, path, last_modified, argv[mi])
           /\ notified' = IF last_modified = None THEN notified
                          ELSE [notified EXCEPT ![MainThread] =
                                   Noted(@, path, "Created")]
    /\ mfiles' = mfiles \ {path}
    /\ mpc' = IF mfiles' = {} THEN "start" ELSE "popfile"
    /\ UNCHANGED << constVars, lockVars, hook, envVars, mi, wasEmpty, pc, passVars, quiet, owed >>

\* populate_database, one file of the walk: getmtime, then add_file_to_db;
\* a file whose getmtime raises is skipped
MainPopFile(path) ==
    /\ mpc = "popfile"
    /\ path \in mfiles
    /\ LET last_modified == getmtime(argv[mi], path)
       IN  db' = IF last_modified = None THEN db
                 ELSE add_file_to_db(db, path, last_modified, argv[mi])
    /\ mfiles' = mfiles \ {path}
    /\ mpc' = IF mfiles' = {} THEN "start" ELSE "popfile"
    /\ UNCHANGED << constVars, lockVars, hook, envVars, mi, wasEmpty, pc, passVars, notified,
                    quiet, owed >>

\* threading.Thread(target=monitor_directory, args=(directory,)).start()
MainStartThread ==
    /\ mpc = "start"
    /\ pc' = [pc EXCEPT ![mi] = "walk"]
    /\ mi' = mi + 1
    /\ mpc' = "next"
    /\ wasEmpty' = FALSE
    /\ UNCHANGED << constVars, lockVars, hook, envVars, db, mfiles, passVars, notified, quiet,
                    owed >>

(* ----------------------------- monitor thread ------------------------- *)

\* scan_and_process_directory, the walk: every listed file with an allowed
\* extension goes into current_files_on_disk
Walk(i) ==
    /\ pc[i] = "walk"
    /\ cur' = [cur EXCEPT ![i] = walk_media(argv[i])]
    /\ rootGone' = [rootGone EXCEPT ![i] = ~rootExists[argv[i]]]
    /\ ftc' = [ftc EXCEPT ![i] = EmptyMap]
    /\ dbi' = [dbi EXCEPT ![i] = EmptyMap]
    /\ notified' = [notified EXCEPT ![i] = EmptyMap]
    /\ passNo' = [passNo EXCEPT ![i] = IF observed /\ @ < 2 THEN @ + 1 ELSE @]
    /\ quiet' = Walked(i)
    /\ pc' = [pc EXCEPT ![i] = "stat"]
    /\ UNCHANGED << constVars, lockVars, hook, envVars, db, mainVars, todo, inflight, dels, owed >>

\* the getmtime calls of the scan: files_to_check gets the listed files whose
\* getmtime does not raise
Stat(i) ==
    /\ pc[i] = "stat"
    /\ ftc' = [ftc EXCEPT ![i] =
                 [p \in { q \in cur[i] : getmtime(argv[i], q) # None } |->
                     getmtime(argv[i], p)]]
    /\ pc' = [pc EXCEPT ![i] = "list"]
    /\ UNCHANGED << constVars, lockVars, hook, envVars, db, mainVars, cur, dbi, todo, inflight,
                    dels, notified, passNo, rootGone, quiet, owed >>

\* SELECT path, last_modified FROM table into db_files_info; from here on
\* the work of the pass is fixed: the changed items, then the deleted files
ListAll(i) ==
    /\ pc[i] = "list"
    /\ get_table_name(argv[i]) \in DOMAIN db
    /\ LET info == db[get_table_name(argv[i])]
           td == changed_files(ftc[i], info)
           dl == deleted_files(info, cur[i])
       IN  /\ dbi' = [dbi EXCEPT ![i] = info]
           /\ todo' = [todo EXCEPT ![i] = td]
           /\ dels' = [dels EXCEPT ![i] = dl]
           /\ pc' = [pc EXCEPT ![i] = After(td, NoPath, dl)]
    /\ UNCHANGED << constVars, lockVars, hook, envVars, db, mainVars, cur, ftc, inflight, notified,
                    passNo, rootGone, quiet, owed >>

\* process_item_library(file_path) for a New or Modified item; the media
\* server is reachable or not
Notify(i, path, reachable) ==
    /\ pc[i] = "run" /\ inflight[i] = NoPath
    /\ path \in todo[i]
    /\ notified' = [notified EXCEPT ![i] =
                      Noted(@, path, process_item_library(reachable))]
    /\ inflight' = [inflight EXCEPT ![i] = path]
    /\ owed' = owed \ {path}
    /\ UNCHANGED << constVars, lockVars, hook, envVars, db, mainVars, pc, cur, ftc, dbi, todo, dels,
                    passNo, rootGone, quiet >>

\* the item is added only when its update was POSTed
Upsert_if_sent(i) ==
    /\ pc[i] = "run" /\ inflight[i] # NoPath
    /\ db' = IF notified[i][inflight[i]][Len(notified[i][inflight[i]])] = NoPost
             THEN db
             ELSE add_file_to_db(db, inflight[i], ftc[i][inflight[i]], argv[i])
    /\ todo' = [todo EXCEPT ![i] = @ \ {inflight[i]}]
    /\ inflight' = [inflight EXCEPT ![i] = NoPath]
    /\ pc' = [pc EXCEPT ![i] = After(todo'[i], NoPath, dels[i])]
    /\ UNCHANGED << constVars, lockVars, hook, envVars, mainVars, cur, ftc, dbi, dels, notified,
                    passNo, rootGone, quiet, owed >>

\* add_file_to_db(file_path, current_last_modified, directory) for the item
\* just notified
Upsert(i) ==
    /\ pc[i] = "run" /\ inflight[i] # NoPath
    /\ db' = add_file_to_db(db, inflight[i], ftc[i][inflight[i]], argv[i])
    /\ todo' = [todo EXCEPT ![i] = @ \ {inflight[i]}]
    /\ inflight' = [inflight EXCEPT ![i] = NoPath]
    /\ pc' = [pc EXCEPT ![i] = After(todo'[i], NoPath, dels[i])]
    /\ UNCHANGED << constVars, lockVars, hook, envVars, mainVars, cur, ftc, dbi, dels, notified,
                    passNo, rootGone, quiet, owed >>

\* the loop over deleted_files leaving the records where they are
Remove_skipped(i, path) ==
    /\ pc[i] = "run" /\ inflight[i] = NoPath /\ todo[i] = {}
    /\ path \in dels[i]
    /\ dels' = [dels EXCEPT ![i] = @ \ {path}]
    /\ pc' = [pc EXCEPT ![i] = After({}, NoPath, dels'[i])]
    /\ UNCHANGED << constVars, lockVars, hook, envVars, db, mainVars, cur, ftc, dbi, todo,
                    inflight, notified, passNo, rootGone, quiet, owed >>

\* remove_file_from_db(file_path, directory) for one of deleted_files, once
\* the loop over files_to_check is over
Remove(i, path) ==
    /\ pc[i] = "run" /\ inflight[i] = NoPath /\ todo[i] = {}
    /\ path \in dels[i]
    /\ db' = remove_file_from_db(db, path, argv[i])
    /\ dels' = [dels EXCEPT ![i] = @ \ {path}]
    /\ pc' = [pc EXCEPT ![i] = After({}, NoPath, dels'[i])]
    /\ UNCHANGED << constVars, lockVars, hook, envVars, mainVars, cur, ftc, dbi, todo, inflight,
                    notified, passNo, rootGone, quiet, owed >>

\* time.sleep(MONITOR_INTERVAL) is over: the next scan cycle
Wake(i) ==
    /\ pc[i] = "sleep"
    /\ pc' = [pc EXCEPT ![i] = "walk"]
    /\ UNCHANGED << constVars, lockVars, hook, envVars, db, mainVars, passVars, notified, quiet,
                    owed >>

(* ------------------------------- db_lock ------------------------------ *)

\* items a walk or a listing may leave to visit, in the view of the program
\* that follows db_lock
MaxItems == 2

\* db_lock is not held
Free == -1

\* the variables other than db_lock's, which the view of db_lock leaves alone
dataVars == << constVars, envVars, db, mainVars, pc, passVars, notified, quiet,
               owed, hook >>

\* the calls that run a statement on db_conn, each inside "with db_lock:"
StoreCalls ==
    { "initialize_database", "is_table_empty", "add_file_to_db",
      "remove_file_from_db", "select" }

\* thread t at call op for directory d, with n items and then m items left
Place(op, d, n, m) == [op |-> op, inside |-> FALSE, dir |-> d, n |-> n, m |-> m]

\* no thread started yet, the main thread at its first directory
LockIdle(args) ==
    /\ lock = Free
    /\ at = [t \in 0..Len(args) |->
                IF t = MainThread THEN Place("isdir", 1, 0, 0)
                ELSE Place("off", t, 0, 0)]

\* where the main thread goes once it is done with directory d
AfterDir(d, started) ==
    IF d < Len(argv) THEN Place("isdir", d + 1, 0, 0)
    ELSE IF started THEN Place("supervise", d, 0, 0)
    ELSE Place("exit", d, 0, 0)

\* where a monitor thread goes in its pass with n changed items and m
\* deleted files left
AfterItem(d, n, m) ==
    IF n > 0 THEN Place("process_item_library", d, n, m)
    ELSE IF m > 0 THEN Place("remove_file_from_db", d, n, m)
    ELSE Place("sleep", d, 0, 0)

\* with db_lock: entered without waiting for the lock to be free
Enter_unguarded(t) ==
    /\ at[t].op \in StoreCalls /\ ~at[t].inside
    /\ lock' = t
    /\ at' = [at EXCEPT ![t].inside = TRUE]
    /\ UNCHANGED dataVars

\* with db_lock: the thread at a store call acquires the lock
Enter(t) ==
    /\ at[t].op \in StoreCalls /\ ~at[t].inside
    /\ lock = Free
    /\ lock' = t
    /\ at' = [at EXCEPT ![t].inside = TRUE]
    /\ UNCHANGED dataVars

\* where thread t goes when its store call returns: ok tells whether the
\* statement succeeded, empty what the count found, n and m what the walk
\* or the listing left to visit
Returned(t, ok, empty, n, m) ==
    LET here == at[t]
    IN  CASE here.op = "initialize_database" ->
                 Place("is_table_empty", here.dir, 0, 0)
          [] here.op = "is_table_empty" ->
                 IF ~ok \/ empty THEN Place("walk", here.dir, n, 0)
                 ELSE Place("start", here.dir, 0, 0)
          [] here.op = "add_file_to_db" /\ t = MainThread ->
                 Place("walk", here.dir, here.n - 1, 0)
          [] here.op = "add_file_to_db" /\ t # MainThread ->
                 AfterItem(here.dir, here.n - 1, here.m)
          [] here.op = "remove_file_from_db" ->
                 AfterItem(here.dir, 0, here.m - 1)
          [] here.op = "select" ->
                 IF ok THEN AfterItem(here.dir, n, m)
                 ELSE Place("sleep", here.dir, 0, 0)

\* the with block left with the lock kept when the statement raised
Leave_keeps_on_error(t, ok, empty, n, m) ==
    /\ at[t].inside
    /\ lock' = IF ok THEN Free ELSE lock
    /\ at' = [at EXCEPT ![t] = Returned(t, ok, empty, n, m)]
    /\ UNCHANGED dataVars

\* the with block is left, by its end or by an exception that the function's
\* except clause then handles: the lock is released and the call returns
Leave(t, ok, empty, n, m) ==
    /\ at[t].inside
    /\ lock' = Free
    /\ at' = [at EXCEPT ![t] = Returned(t, ok, empty, n, m)]
    /\ UNCHANGED dataVars

\* __main__: os.path.isdir(directory)
CheckDir(valid) ==
    /\ at[MainThread].op = "isdir"
    /\ at' = [at EXCEPT ![MainThread] =
                IF valid THEN Place("initialize_database", @.dir, 0, 0)
                ELSE AfterDir(@.dir, \E i \in 1..Len(argv) : at[i].op # "off")]
    /\ UNCHANGED << lock, dataVars >>

\* populate_database: the walk yields one more file, whose getmtime works
\* or raises, or is over
PopulateWalk(readable) ==
    /\ at[MainThread].op = "walk"
    /\ at' = [at EXCEPT ![MainThread] =
                IF @.n = 0 THEN Place("start", @.dir, 0, 0)
                ELSE IF readable THEN Place("add_file_to_db", @.dir, @.n, 0)
                ELSE Place("walk", @.dir, @.n - 1, 0)]
    /\ UNCHANGED << lock, dataVars >>

\* __main__: thread.start() for the directory in hand
StartThread ==
    /\ at[MainThread].op = "start"
    /\ at' = [at EXCEPT ![MainThread] = AfterDir(@.dir, TRUE),
                        ![at[MainThread].dir] = Place("scan", @.dir, 0, 0)]
    /\ UNCHANGED << lock, dataVars >>

\* scan_and_process_directory: os.walk and getmtime, then on to the listing
Scan(i) ==
    /\ at[i].op = "scan"
    /\ at' = [at EXCEPT ![i] = Place("select", @.dir, 0, 0)]
    /\ UNCHANGED << lock, dataVars >>

\* process_item_library returns, having sent the update or logged why not
CallNotifier(i) ==
    /\ at[i].op = "process_item_library"
    /\ at' = [at EXCEPT ![i] = Place("add_file_to_db", @.dir, @.n, @.m)]
    /\ UNCHANGED << lock, dataVars >>

\* an exception in the pass with no except clause to catch it
Raise_uncaught(i) ==
    /\ at[i].op \in {"scan", "process_item_library"}
    /\ at' = [at EXCEPT ![i] = Place("dead", @.dir, 0, 0)]
    /\ UNCHANGED << lock, dataVars >>

\* an exception in the pass outside the store calls: the except clause of
\* scan_and_process_directory logs it and the pass is over
Raise(i) ==
    /\ at[i].op \in {"scan", "process_item_library"}
    /\ at' = [at EXCEPT ![i] = Place("sleep", @.dir, 0, 0)]
    /\ UNCHANGED << lock, dataVars >>

\* time.sleep(MONITOR_INTERVAL) is over
NextCycle(i) ==
    /\ at[i].op = "sleep"
    /\ at' = [at EXCEPT ![i] = Place("scan", @.dir, 0, 0)]
    /\ UNCHANGED << lock, dataVars >>

(* --------------------------- the webhook relay ------------------------- *)

\* MESSAGE_DELAY, in seconds, the unit of the relay's clock
MESSAGE_DELAY == 5

\* Timer objects made in a run, and the last second of the clock
MaxTimers == 3
MaxTime == 11

\* Item.Id of the library.new events, and the "admins" lists of config.yaml
ItemIds == { "i1", "i2" }
AdminLists == { << "a" >>, << "a", "b" >> }

\* the variables of the directory monitor, which the relay leaves alone
scanVars == << constVars, envVars, db, mainVars, pc, passVars, notified, quiet,
               owed, lockVars >>

\* the relay just started with the given admins: nothing cached, no Timer
\* made, no request received
HookIdle(admins) ==
    [admin_ids |-> admins, now |-> 0, message_cache |-> EmptyMap,
     timers |-> << >>, calls |-> << >>]

\* no relay is looked at
HookOff == HookIdle(<< >>)

\* the handler of a request, at admin k of its loop over admin_ids: where it
\* goes after process_event returns for that admin
NextAdmin(call) ==
    [call EXCEPT !.k = @ + 1,
                 !.pc = IF call.k + 1 > Len(hook.admin_ids)
                        THEN "done" ELSE "check"]

\* webhook(): a library.new event for an item with an id and a container
\* arrives; its handler starts the loop over admin_ids, in a thread of its own
webhook(item_id) ==
    /\ hook.admin_ids # << >>
    /\ (Len(hook.calls) + 1) * Len(hook.admin_ids) <= MaxTimers
    /\ hook' = [hook EXCEPT !.calls =
                   Append(@, [item |-> item_id, k |-> 1, pc |-> "check"])]
    /\ UNCHANGED scanVars

\* schedule_message: "if item_id in message_cache"
ScheduleCheck(c) ==
    /\ hook.calls[c].pc = "check"
    /\ hook' = [hook EXCEPT !.calls[c].pc =
                   IF hook.calls[c].item \in DOMAIN hook.message_cache
                   THEN "cancel" ELSE "install"]
    /\ UNCHANGED scanVars

\* schedule_message: message_cache[item_id].cancel(). Timer.cancel() stops a
\* Timer that still waits and does nothing to one whose callback runs. When
\* the entry has gone since the check, the lookup raises KeyError, which
\* lib_new catches and logs: no Timer is made for this admin
ScheduleCancel(c) ==
    /\ hook.calls[c].pc = "cancel"
    /\ LET item_id == hook.calls[c].item
       IN  IF item_id \in DOMAIN hook.message_cache
           THEN hook' = [hook EXCEPT
                    !.timers[hook.message_cache[item_id]].st =
                        IF @ = "waiting" THEN "cancelled" ELSE @,
                    !.calls[c].pc = "install"]
           ELSE hook' = [hook EXCEPT !.calls[c] = NextAdmin(@)]
    /\ UNCHANGED scanVars

\* schedule_message: the new Timer is made for the message of this admin,
\* put into message_cache under item_id and started
ScheduleInstall(c) ==
    /\ hook.calls[c].pc = "install"
    /\ LET call == hook.calls[c]
           timer == [item |-> call.item, send_id |-> hook.admin_ids[call.k],
                     ev |-> c, born |-> hook.now, st |-> "waiting"]
       IN  hook' = [hook EXCEPT
                !.timers = Append(@, timer),
                !.message_cache = Put(@, call.item, Len(hook.timers) + 1),
                !.calls[c] = NextAdmin(@)]
    /\ UNCHANGED scanVars

\* threading.Timer: MESSAGE_DELAY after start() the Timer, unless cancelled,
\* calls send_message_callback, which begins with send_telegram_message
TimerFires(t) ==
    /\ hook.timers[t].st = "waiting"
    /\ hook.now = hook.timers[t].born + MESSAGE_DELAY
    /\ hook' = [hook EXCEPT !.timers[t].st = "sending"]
    /\ UNCHANGED scanVars

\* send_message_callback, after send_telegram_message has returned:
\* "del message_cache[item_id]", which raises KeyError in the Timer's thread
\* when there is no entry
send_message_callback(t) ==
    /\ hook.timers[t].st = "sending"
    /\ LET item_id == hook.timers[t].item
       IN  IF item_id \in DOMAIN hook.message_cache
           THEN hook' = [hook EXCEPT !.message_cache = Drop(@, item_id),
                                     !.timers[t].st = "finished"]
           ELSE hook' = [hook EXCEPT !.timers[t].st = "failed"]
    /\ UNCHANGED scanVars

\* a second passes; a Timer that is due fires first, and a request that is
\* past the check of schedule_message, which does no input or output, ends
\* the call first
Tick ==
    /\ hook.now < MaxTime
    /\ \A c \in DOMAIN hook.calls : hook.calls[c].pc \notin {"cancel", "install"}
    /\ \A t \in DOMAIN hook.timers :
          hook.timers[t].st = "waiting" =>
              hook.now < hook.timers[t].born + MESSAGE_DELAY
    /\ hook' = [hook EXCEPT !.now = @ + 1]
    /\ UNCHANGED scanVars

(* ------------------------------ the process --------------------------- *)

\* what a freshly started process holds, for the command line args, when
\* its main thread is at the given place
FreshAt(args, where) ==
    /\ mpc = where /\ mi = 1 /\ mfiles = {} /\ wasEmpty = FALSE
    /\ pc = [i \in 1..Len(args) |-> "none"]
    /\ cur = [i \in 1..Len(args) |-> {}]
    /\ ftc = [i \in 1..Len(args) |-> EmptyMap]
    /\ dbi = [i \in 1..Len(args) |-> EmptyMap]
    /\ todo = [i \in 1..Len(args) |-> {}]
    /\ inflight = [i \in 1..Len(args) |-> NoPath]
    /\ dels = [i \in 1..Len(args) |-> {}]
    /\ notified = [i \in 0..Len(args) |-> EmptyMap]
    /\ passNo = [i \in 1..Len(args) |-> 0]
    /\ rootGone = [i \in 1..Len(args) |-> FALSE]
    /\ quiet = [i \in 1..Len(args) |-> 0]

\* the same with the main thread at the loop over the directories
Fresh(args) == FreshAt(args, "next")

\* the process is killed and started again with the same command line: the
\* threads and their locals are gone, the database file and the disk stay
Crash ==
    /\ mpc' = "next" /\ mi' = 1 /\ mfiles' = {} /\ wasEmpty' = FALSE
    /\ pc' = [i \in Workers |-> "none"]
    /\ cur' = [i \in Workers |-> {}]
    /\ ftc' = [i \in Workers |-> EmptyMap]
    /\ dbi' = [i \in Workers |-> EmptyMap]
    /\ todo' = [i \in Workers |-> {}]
    /\ inflight' = [i \in Workers |-> NoPath]
    /\ dels' = [i \in Workers |-> {}]
    /\ notified' = [i \in 0..Len(argv) |-> EmptyMap]
    /\ passNo' = [i \in Workers |-> 0]
    /\ rootGone' = [i \in Workers |-> FALSE]
    /\ quiet' = [i \in Workers |-> 0]
    /\ owed' = IF observed
               THEN owed \cup UNION { { p \in todo[i] :
                                           getmtime(argv[i], p) = ftc[i][p] } :
                                       i \in Workers }
               ELSE owed
    /\ UNCHANGED << constVars, lockVars, hook, envVars, db >>

\* a first start: a new database file, the roots in place and empty
InitWith(worlds) ==
    /\ \E w \in worlds : /\ argv = w.args /\ names = w.files
                          /\ observed = w.observed
    /\ rootExists = [d \in Range(argv) |-> TRUE]
    /\ disk = [d \in Range(argv) |-> [f \in FileNames |-> 0]]
    /\ db = EmptyMap
    /\ owed = {}
    /\ Fresh(argv)
    /\ LockIdle(argv)
    /\ hook = HookOff

Init == InitWith(Worlds)

InitTwo == InitWith(WorldsTwo)

Environment ==
    \/ \E i \in Workers, m \in 1..MaxMtime :
          \E f \in names[i] : CreateFile(argv[i], f, m)
    \/ \E d \in Roots, f \in FileNames, m \in 1..MaxMtime : TouchFile(d, f, m)
    \/ \E d \in Roots, f \in FileNames : DeleteFile(d, f)
    \/ \E d \in Roots : RemoveRoot(d)
    \/ \E d \in Roots : RestoreRoot(d)

Program ==
    \/ MainNextDir
    \/ MainInitDb
    \/ MainPopulate
    \/ \E path \in mfiles : MainPopFile(path)
    \/ MainStartThread
    \/ \E i \in Workers : Walk(i)
    \/ \E i \in Workers : Stat(i)
    \/ \E i \in Workers : ListAll(i)
    \/ \E i \in Workers, reachable \in BOOLEAN :
          \E path \in todo[i] : Notify(i, path, reachable)
    \/ \E i \in Workers : Upsert(i)
    \/ \E i \in Workers : \E path \in dels[i] : Remove(i, path)
    \/ \E i \in Workers : Wake(i)

Next == Environment \/ Program \/ Crash

Spec == Init /\ [][Next]_vars

\* the same program started on two roots
SpecTwo == InitTwo /\ [][Next]_vars

\* a start with one root given twice on the command line
WorldsDup ==
    { [args |-> << DirT, DirT >>, files |-> << { FileA }, {} >>,
       observed |-> FALSE] }

InitDup == InitWith(WorldsDup)

\* the same program started with a repeated argument
SpecDup == InitDup /\ [][Next]_vars

(* ------------------------------- startup ------------------------------ *)

\* a start with one watched root
WorldsStart ==
    { [args |-> << DirM >>, files |-> << { FileA } >>, observed |-> FALSE] }

\* the status the process ends with, where the main thread has ended:
\* sys.exit(1) after a failed makedirs and when no thread was started; the
\* end of the script, after the except and finally clauses, when
\* sqlite3.connect raised
exit_status == IF mpc = "exit_connect" THEN 0 ELSE 1

\* the main thread has ended
Exited == mpc \in {"exit_makedirs", "exit_connect", "exited"}

\* the directory of the database file: nothing to do when it exists,
\* os.makedirs otherwise, sys.exit(1) when that raises OSError
MainMakedirs(exists, ok) ==
    /\ mpc = "makedirs"
    /\ mpc' = IF exists \/ ok THEN "connect" ELSE "exit_makedirs"
    /\ UNCHANGED << constVars, lockVars, hook, envVars, db, mi, mfiles, wasEmpty, pc, passVars,
                    notified, quiet, owed >>

\* sqlite3.connect: on sqlite3.Error the except clause logs it, the finally
\* clause runs and the script ends
MainConnect(ok) ==
    /\ mpc = "connect"
    /\ mpc' = IF ok THEN "next" ELSE "exit_connect"
    /\ UNCHANGED << constVars, lockVars, hook, envVars, db, mi, mfiles, wasEmpty, pc, passVars,
                    notified, quiet, owed >>

\* the process has ended without starting a thread and is started again
Launch ==
    /\ Exited
    /\ mpc' = "makedirs"
    /\ mi' = 1
    /\ UNCHANGED << constVars, lockVars, hook, envVars, db, mfiles, wasEmpty, pc, passVars,
                    notified, quiet, owed >>

\* a first start, from the first statement of __main__
InitStart ==
    /\ \E w \in WorldsStart : /\ argv = w.args /\ names = w.files
                               /\ observed = w.observed
    /\ rootExists = [d \in Range(argv) |-> TRUE]
    /\ disk = [d \in Range(argv) |-> [f \in FileNames |-> 0]]
    /\ db = EmptyMap
    /\ owed = {}
    /\ FreshAt(argv, "makedirs")
    /\ LockIdle(argv)
    /\ hook = HookOff

NextStart ==
    \/ Environment
    \/ Program
    \/ \E exists, ok \in BOOLEAN : MainMakedirs(exists, ok)
    \/ \E ok \in BOOLEAN : MainConnect(ok)
    \/ Launch

\* the program from the creation of the database directory on
SpecStart == InitStart /\ [][NextStart]_vars

(* ------------------------------- faults ------------------------------ *)

\* starts with two watched roots that have tables of their own
WorldsFault ==
    { [args |-> << DirM, DirT >>, files |-> << { FileA }, { FileA } >>,
       observed |-> FALSE] }

\* initialize_database: the CREATE TABLE raises; the except clauses log it
\* and the function returns as it does on success
MainInitDbFails ==
    /\ mpc = "init"
    /\ mpc' = "populate"
    /\ UNCHANGED << constVars, lockVars, hook, envVars, db, mi, mfiles, wasEmpty, pc, passVars,
                    notified, quiet, owed >>

\* populate_database: the SELECT COUNT(*) of is_table_empty raises, which
\* makes it return True, so the tree is walked and added
MainCountFails ==
    /\ mpc = "populate"
    /\ wasEmpty' = TRUE
    /\ mfiles' = walk_media(argv[mi])
    /\ quiet' = Walked(mi)
    /\ mpc' = IF mfiles' = {} THEN "start" ELSE "popfile"
    /\ UNCHANGED << constVars, lockVars, hook, envVars, db, mi, pc, passVars, notified, owed >>

\* populate_database, one file of the walk whose INSERT raises: logged by
\* add_file_to_db, the loop goes on
MainPopFileFails(path) ==
    /\ mpc = "popfile"
    /\ path \in mfiles
    /\ mfiles' = mfiles \ {path}
    /\ mpc' = IF mfiles' = {} THEN "start" ELSE "popfile"
    /\ UNCHANGED << constVars, lockVars, hook, envVars, db, mi, wasEmpty, pc, passVars, notified,
                    quiet, owed >>

\* the scan with every getmtime raising OSError: each file is logged and
\* skipped, files_to_check stays empty
StatUnreadable(i) ==
    /\ pc[i] = "stat"
    /\ ftc' = [ftc EXCEPT ![i] = EmptyMap]
    /\ pc' = [pc EXCEPT ![i] = "list"]
    /\ UNCHANGED << constVars, lockVars, hook, envVars, db, mainVars, cur, dbi, todo, inflight,
                    dels, notified, passNo, rootGone, quiet, owed >>

\* the listing with no except clause around it: db_files_info stays empty
\* and the pass goes on to its two loops
ListAllFails_goes_on(i) ==
    /\ pc[i] = "list"
    /\ LET td == changed_files(ftc[i], EmptyMap)
           dl == deleted_files(EmptyMap, cur[i])
       IN  /\ todo' = [todo EXCEPT ![i] = td]
           /\ dels' = [dels EXCEPT ![i] = dl]
           /\ pc' = [pc EXCEPT ![i] = After(td, NoPath, dl)]
    /\ UNCHANGED << constVars, lockVars, hook, envVars, db, mainVars, cur, ftc, dbi, inflight,
                    notified, passNo, rootGone, quiet, owed >>

\* the SELECT of the listing raises sqlite3.Error: logged, and
\* scan_and_process_directory returns
ListAllFails(i) ==
    /\ pc[i] = "list"
    /\ pc' = [pc EXCEPT ![i] = "sleep"]
    /\ UNCHANGED << constVars, lockVars, hook, envVars, db, mainVars, passVars, notified, quiet,
                    owed >>

\* add_file_to_db for the item just notified raises: logged by add_file_to_db,
\* the loop goes on to the next item
UpsertFails(i) ==
    /\ pc[i] = "run" /\ inflight[i] # NoPath
    /\ todo' = [todo EXCEPT ![i] = @ \ {inflight[i]}]
    /\ inflight' = [inflight EXCEPT ![i] = NoPath]
    /\ pc' = [pc EXCEPT ![i] = After(todo'[i], NoPath, dels[i])]
    /\ UNCHANGED << constVars, lockVars, hook, envVars, db, mainVars, cur, ftc, dbi, dels,
                    notified, passNo, rootGone, quiet, owed >>

\* remove_file_from_db for one of deleted_files raises: logged by
\* remove_file_from_db, the loop goes on
RemoveFails(i, path) ==
    /\ pc[i] = "run" /\ inflight[i] = NoPath /\ todo[i] = {}
    /\ path \in dels[i]
    /\ dels' = [dels EXCEPT ![i] = @ \ {path}]
    /\ pc' = [pc EXCEPT ![i] = After({}, NoPath, dels'[i])]
    /\ UNCHANGED << constVars, lockVars, hook, envVars, db, mainVars, cur, ftc, dbi, todo,
                    inflight, notified, passNo, rootGone, quiet, owed >>

\* any other exception anywhere in the pass: the outer except clause of
\* scan_and_process_directory logs it and the pass is over
PassRaises(i) ==
    /\ pc[i] \in {"stat", "list", "run"}
    /\ pc' = [pc EXCEPT ![i] = "sleep"]
    /\ todo' = [todo EXCEPT ![i] = {}]
    /\ inflight' = [inflight EXCEPT ![i] = NoPath]
    /\ dels' = [dels EXCEPT ![i] = {}]
    /\ UNCHANGED << constVars, lockVars, hook, envVars, db, mainVars, cur, ftc, dbi, notified,
                    passNo, rootGone, quiet, owed >>

\* the faults that hit the startup of a directory in the main thread
StartupFaults ==
    \/ MainInitDbFails
    \/ MainCountFails
    \/ \E path \in mfiles : MainPopFileFails(path)

\* the faults that hit the pass of monitor thread i
PassFaults(i) ==
    \/ StatUnreadable(i)
    \/ ListAllFails(i)
    \/ UpsertFails(i)
    \/ \E path \in dels[i] : RemoveFails(i, path)
    \/ PassRaises(i)

InitFault == InitWith(WorldsFault)

\* the disk while faults are looked at: files come, all with one mtime, and
\* go; the roots stay
FilesComeAndGo ==
    \/ \E i \in Workers :
          \E f \in names[i] : CreateFile(argv[i], f, 1)
    \/ \E d \in Roots, f \in FileNames : DeleteFile(d, f)

NextFault ==
    \/ FilesComeAndGo
    \/ Program
    \/ StartupFaults
    \/ \E i \in Workers : PassFaults(i)

\* the program with store calls, stats and passes that may fail
SpecFault == InitFault /\ [][NextFault]_vars

(* --------------------------- db_lock, the specs ------------------------ *)

\* a start with two watched roots, seen through db_lock only
WorldsLock ==
    { [args |-> << DirM, DirT >>, files |-> << {}, {} >>, observed |-> FALSE] }

InitLock == InitWith(WorldsLock)

\* the steps of the main thread outside the with blocks
MainOutside ==
    \/ \E valid \in BOOLEAN : CheckDir(valid)
    \/ \E readable \in BOOLEAN : PopulateWalk(readable)
    \/ StartThread

\* the steps of monitor thread i outside the with blocks
ThreadOutside(i) ==
    \/ Scan(i)
    \/ CallNotifier(i)
    \/ Raise(i)
    \/ NextCycle(i)

\* thread t leaves its with block, whatever the outcome of the statement
Leaves(t) ==
    \E ok, empty \in BOOLEAN, n, m \in 0..MaxItems : Leave(t, ok, empty, n, m)

NextLock ==
    \/ MainOutside
    \/ \E i \in 1..Len(argv) : ThreadOutside(i)
    \/ \E t \in 0..Len(argv) : Enter(t)
    \/ \E t \in 0..Len(argv) : Leaves(t)

\* the program as db_lock sees it
SpecLock == InitLock /\ [][NextLock]_vars

\* the same where every thread keeps running: a step outside the with
\* blocks is taken in the end, a statement on db_conn ends, and a thread
\* that finds the lock free again and again gets it
SpecLockFair ==
    /\ SpecLock
    /\ WF_vars(MainOutside) /\ WF_vars(Leaves(0)) /\ SF_vars(Enter(0))
    /\ WF_vars(ThreadOutside(1)) /\ WF_vars(Leaves(1)) /\ SF_vars(Enter(1))
    /\ WF_vars(ThreadOutside(2)) /\ WF_vars(Leaves(2)) /\ SF_vars(Enter(2))

(* ----------------------- the notifier and fairness --------------------- *)

\* a start with one watched root and one media file name
WorldsLive ==
    { [args |-> << DirM >>, files |-> << { FileA } >>, observed |-> FALSE] }

InitLive == InitWith(WorldsLive)

\* process_item_library(file_path) when the media server takes the request
\* and never answers: requests.get and requests.post are called without a
\* timeout, so the call, which holds the thread, does not return; the GET
\* is the one left unanswered, or the POST that follows it
NotifyNoAnswer(i, path, posted) ==
    /\ pc[i] = "run" /\ inflight[i] = NoPath
    /\ path \in todo[i]
    /\ notified' = [notified EXCEPT ![i] =
                      Noted(@, path, process_item_library(posted))]
    /\ pc' = [pc EXCEPT ![i] = "waiting"]
    /\ owed' = owed \ {path}
    /\ UNCHANGED << constVars, lockVars, hook, envVars, db, mainVars, passVars, quiet >>

\* the disk while the worker is followed: files come with any mtime, are
\* written again with a later mtime, and go; the root stays
FilesChange ==
    \/ \E i \in Workers, m \in 1..MaxMtime :
          \E f \in names[i] : CreateFile(argv[i], f, m)
    \/ \E d \in Roots, f \in FileNames, m \in 1..MaxMtime :
          m > disk[d][f] /\ TouchFile(d, f, m)
    \/ \E d \in Roots, f \in FileNames : DeleteFile(d, f)

\* the steps of the main thread
MainStep ==
    \/ MainNextDir
    \/ MainInitDb
    \/ MainPopulate
    \/ \E path \in mfiles : MainPopFile(path)
    \/ MainStartThread

\* the steps of monitor thread i whose calls return
WorkerStep(i) ==
    \/ Walk(i) \/ Stat(i) \/ ListAll(i) \/ Upsert(i) \/ Wake(i)
    \/ \E path \in todo[i], reachable \in BOOLEAN : Notify(i, path, reachable)
    \/ \E path \in dels[i] : Remove(i, path)

NextLive ==
    \/ FilesChange
    \/ MainStep
    \/ WorkerStep(1)
    \/ \E path \in todo[1], posted \in BOOLEAN : NotifyNoAnswer(1, path, posted)

\* the program kept running, its threads scheduled fairly
SpecLive ==
    /\ InitLive /\ [][NextLive]_vars
    /\ WF_vars(MainStep) /\ WF_vars(WorkerStep(1))

(* ------------------------ the webhook relay, run ----------------------- *)

\* the relay started with one admin or with two, next to an idle monitor
InitHook ==
    /\ \E w \in WorldsLock : /\ argv = w.args /\ names = w.files
                              /\ observed = w.observed
    /\ rootExists = [d \in Range(argv) |-> TRUE]
    /\ disk = [d \in Range(argv) |-> [f \in FileNames |-> 0]]
    /\ db = EmptyMap
    /\ owed = {}
    /\ Fresh(argv)
    /\ LockIdle(argv)
    /\ \E admins \in AdminLists : hook = HookIdle(admins)

NextHook ==
    \/ \E item_id \in ItemIds : webhook(item_id)
    \/ \E c \in DOMAIN hook.calls : ScheduleCheck(c)
    \/ \E c \in DOMAIN hook.calls : ScheduleCancel(c)
    \/ \E c \in DOMAIN hook.calls : ScheduleInstall(c)
    \/ \E t \in DOMAIN hook.timers : TimerFires(t)
    \/ \E t \in DOMAIN hook.timers : send_message_callback(t)
    \/ Tick

\* the relay with its requests and Timer callbacks running side by side
SpecHook == InitHook /\ [][NextHook]_vars

(* ------------------------ vocabulary of the claims --------------------- *)

\* the inventory partition of argv[i] (no records while the table is missing)
TableOf(i) ==
    IF get_table_name(argv[i]) \in DOMAIN db
    THEN db[get_table_name(argv[i])]
    ELSE EmptyMap

\* thread i has read db_files_info in its pass; the pass is over
Listed(i) == pc[i] \in {"run", "sleep"}
Done(i) == pc[i] = "sleep"

\* calls of process_item_library for path by thread i in its pass
Count(i, path) ==
    IF path \in DOMAIN notified[i] THEN Len(notified[i][path]) ELSE 0

\* the update type of the one notification of path by thread i
Sent(i, path) == notified[i][path][1]

\* the classification of the pass of thread i, from the scan snapshot
\* files_to_check and the inventory listing db_files_info
NewPaths(i) == DOMAIN ftc[i] \ DOMAIN dbi[i]
ModifiedPaths(i) ==
    { p \in DOMAIN ftc[i] \cap DOMAIN dbi[i] : ftc[i][p] > dbi[i][p] }
UnchangedPaths(i) ==
    { p \in DOMAIN ftc[i] \cap DOMAIN dbi[i] : ftc[i][p] <= dbi[i][p] }

\* the media files under root d as a scan would record them right now
Snapshot(d) == [p \in walk_media(d) |-> getmtime(d, p)]

(* -------------------------------- claims ------------------------------ *)

\* C1 (New-file detection): when a pass is over, every path of its scan
\* snapshot that was absent from the inventory listing it read has had
\* exactly one call of the notifier in that pass (a "Created" update, unless
\* the media server could not be reached) and is recorded in the inventory
\* with its scanned mtime; during the pass no such path is notified twice.
C1_NewFileDetection ==
    \A i \in Workers :
        /\ Listed(i) => \A p \in NewPaths(i) : Count(i, p) <= 1
        /\ Done(i) =>
             \A p \in NewPaths(i) :
                 /\ Count(i, p) = 1
                 /\ Sent(i, p) \in {"Created", NoPost}
                 /\ Get(TableOf(i), p) = ftc[i][p]

\* a finished pass that found a new file and told the media server
C1_Witness ==
    \E i \in Workers :
        /\ Done(i)
        /\ \E p \in NewPaths(i) : notified[i][p] = << "Created" >>

\* C2 (Modification detection), as claimed: when a pass is over, every path
\* recorded with mtime T1 and scanned with T2 > T1 has had exactly one
\* notification, which carries update type "Modified" whenever a request
\* was sent, and is recorded with T2.
C2_ModifiedNotification ==
    \A i \in Workers :
        Done(i) =>
            \A p \in ModifiedPaths(i) :
                /\ Count(i, p) = 1
                /\ Sent(i, p) \in {"Modified", NoPost}
                /\ Get(TableOf(i), p) = ftc[i][p]

C4_NoFalsePositive ==
    \A i \in Workers :
        Listed(i) =>
            \A p \in UnchangedPaths(i) :
                Count(i, p) = 0 /\ Get(TableOf(i), p) = dbi[i][p]

\* a finished pass that met a file with the mtime it had on record
C4_Witness ==
    \E i \in Workers :
        Done(i) /\ \E p \in UnchangedPaths(i) : ftc[i][p] = dbi[i][p]

\* C5 (Idempotence): a pass whose walk and the walk of the pass before it
\* both came after the last change on disk (the disk is as the previous
\* pass scanned it) finds nothing changed and sends no notification.
C5_Idempotence ==
    \A i \in Workers :
        (pc[i] \in {"stat", "list", "run", "sleep"}
            /\ passNo[i] = 2 /\ quiet[i] = 2) =>
                /\ notified[i] = EmptyMap
                /\ Listed(i) => changed_files(ftc[i], dbi[i]) = {}

\* a second pass in a row over an unchanged disk that holds media files
C5_Witness ==
    \E i \in Workers :
        Done(i) /\ passNo[i] = 2 /\ quiet[i] = 2 /\ DOMAIN ftc[i] # {}

\* the records of store that belong to root d, whatever table holds them
RecordsOf(store, d) ==
    UNION { { << t, p, store[t][p] >> : p \in DOMAIN store[t] \cap PathsOf(d) } :
            t \in DOMAIN store }

\* a step of the program on behalf of argv[i]: its startup (table creation,
\* bulk population) or a step of its monitor thread
StepFor(i) ==
    \/ mi = i /\ (MainInitDb \/ MainPopulate
                    \/ \E path \in mfiles : MainPopFile(path))
    \/ Walk(i) \/ Stat(i) \/ ListAll(i) \/ Upsert(i) \/ Wake(i)
    \/ \E path \in todo[i], reachable \in BOOLEAN : Notify(i, path, reachable)
    \/ \E path \in dels[i] : Remove(i, path)

\* C6 (Partition isolation), as claimed: no step of the bulk population or
\* of a reconciliation pass for a watched directory A inserts, updates or
\* removes an inventory record of a path under another watched directory B.
C6_PartitionIsolation ==
    [][ \A i \in Workers :
          StepFor(i) =>
              \A j \in Workers :
                  argv[j] # argv[i] =>
                      RecordsOf(db', argv[j]) = RecordsOf(db, argv[j]) ]_vars

\* C7 (Bootstrap without false New): bulk population never notifies; when it
\* has run on an empty partition over a disk that did not change meanwhile,
\* the partition holds exactly the allowed files of the tree with their
\* mtimes; a monitor thread exists only once the main thread is past that
\* directory's population; and a first pass over the disk that the
\* population walked finds no New path and sends no notification.
C7_Bootstrap ==
    /\ notified[MainThread] = EmptyMap
    /\ \A i \in Workers :
        /\ pc[i] # "none" => mi > i
        /\ (mpc = "start" /\ mi = i /\ wasEmpty /\ quiet[i] = 1) =>
               TableOf(i) = Snapshot(argv[i])
        /\ (Listed(i) /\ passNo[i] = 1 /\ quiet[i] = 2) =>
               NewPaths(i) = {} /\ notified[i] = EmptyMap

\* a first pass is over, after a population that recorded two files
C7_Witness ==
    \E i \in Workers :
        /\ Done(i) /\ passNo[i] = 1 /\ quiet[i] = 2
        /\ Cardinality(DOMAIN ftc[i]) = 2
        /\ TableOf(i) = ftc[i]

\* the partition of argv[i] holds records
HasRecords(i) == DOMAIN TableOf(i) # {}

\* C8 (Restart safety): at startup, initialize_database and
\* populate_database on a partition that holds records change no record,
\* send no notification and add no file; and the first pass of a run sends
\* no notification for a file recorded with the mtime it has on disk.
C8_RestartSafety ==
    [][ /\ (mpc \in {"init", "populate"} /\ HasRecords(mi)
               /\ mpc' \notin {mpc, "next"}) =>
                  /\ db' = db
                  /\ notified' = notified
                  /\ mpc' \in {"populate", "start"}
        /\ \A i \in Workers :
              (Listed(i)' /\ passNo'[i] = 1) =>
                  \A p \in DOMAIN ftc'[i] \cap DOMAIN dbi'[i] :
                      ftc'[i][p] = dbi'[i][p] => Count(i, p)' = 0 ]_vars

\* a start that found records in the partition and went on to the thread
C8_Witness ==
    /\ mpc = "start" /\ ~wasEmpty
    /\ mi \in Workers /\ HasRecords(mi)
    /\ walk_media(argv[mi]) # {}

\* C9 (Crash self-healing), as claimed: a path that a killed pass had found
\* New or Modified and had not added to the inventory stays detectable
\* until it is notified: it is never on record with the mtime it has on
\* disk without a notification since the crash.
C9_NoChangeLost ==
    \A i \in Workers :
        \A p \in owed \cap PathsOf(argv[i]) :
            ~ /\ p \in DOMAIN TableOf(i)
              /\ getmtime(argv[i], p) # None
              /\ getmtime(argv[i], p) <= Get(TableOf(i), p)

\* C10 (Missing root is skipped), as claimed: a pass whose walk found the
\* root missing changes nothing: the inventory stays as the pass listed it
\* and no notification is sent.
C10_MissingRootSkipped ==
    \A i \in Workers :
        (rootGone[i] /\ Listed(i)) =>
            TableOf(i) = dbi[i] /\ notified[i] = EmptyMap

\* C11 (Extension filtering): in every reachable state every path recorded
\* in any table has an extension of the allow-list (compared in lower
\* case), and every path the main thread or a monitor thread has called the
\* notifier for has one too.
C11_ExtensionFilter ==
    /\ \A t \in DOMAIN db :
           \A p \in DOMAIN db[t] : file_extension(p) \in ALLOWED_EXTENSIONS
    /\ \A i \in DOMAIN notified :
           \A p \in DOMAIN notified[i] : file_extension(p) \in ALLOWED_EXTENSIONS
    /\ \A i \in Workers :
           \A p \in cur[i] \cup DOMAIN ftc[i] \cup todo[i] :
               file_extension(p) \in ALLOWED_EXTENSIONS

\* a pass is over with n.txt on disk beside a media file that it recorded
C11_Witness ==
    \E i \in Workers :
        /\ Done(i)
        /\ disk[argv[i]][FileN] # 0
        /\ DOMAIN TableOf(i) # {}
        /\ notified[i] # EmptyMap

\* C12 (Notification failure does not block inventory progress): when a
\* pass is over, every New or Modified path of the pass has had its one
\* call of the notifier, and every path whose call failed (nothing was
\* POSTed) is recorded with its scanned mtime all the same; and a call is
\* only ever made for a path that the listing of the pass shows absent or
\* older than scanned, so a path recorded after a failed call is not tried
\* again while its mtime stays as recorded.
C12_FailedNotification ==
    \A i \in Workers :
        /\ Done(i) =>
             /\ \A p \in NewPaths(i) \cup ModifiedPaths(i) : Count(i, p) = 1
             /\ \A p \in DOMAIN notified[i] :
                    Sent(i, p) = NoPost => Get(TableOf(i), p) = ftc[i][p]
        /\ Listed(i) =>
             \A p \in DOMAIN notified[i] :
                 /\ Count(i, p) = 1
                 /\ p \in DOMAIN ftc[i]
                 /\ Get(dbi[i], p) = None \/ Get(dbi[i], p) < ftc[i][p]

\* a finished pass in which one call failed and another path was still
\* notified
C12_Witness ==
    \E i \in Workers :
        /\ Done(i)
        /\ \E p, q \in DOMAIN notified[i] :
               /\ notified[i][p] = << NoPost >>
               /\ notified[i][q] = << "Created" >>
               /\ Get(TableOf(i), p) = ftc[i][p]

\* C15 (Fail-soft partition creation), as claimed: a directory whose
\* initialize_database hit a storage error gets no monitor thread in this
\* run; in a run that begins without any table, a monitor thread therefore
\* exists only for a directory whose table was created.
C15_NoThreadWithoutTable ==
    \A i \in Workers :
        pc[i] # "none" => get_table_name(argv[i]) \in DOMAIN db

\* C20 (Unreadable baseline aborts the pass): when the listing of a pass
\* raises, that step ends the pass: the thread is at its sleep with nothing
\* left to visit, no record of any table has changed and no call of the
\* notifier has been made; nothing more happens in that pass, since the
\* only step of a sleeping thread is the start of its next pass.
C20_ListingFailureEndsPass ==
    [][ \A i \in Workers :
          /\ ListAllFails(i) =>
               /\ pc'[i] = "sleep"
               /\ todo'[i] = {} /\ inflight'[i] = NoPath /\ dels'[i] = {}
               /\ notified'[i] = EmptyMap
               /\ db' = db
          /\ (pc[i] = "sleep" /\ pc'[i] # "sleep") =>
               /\ pc'[i] = "walk"
               /\ db' = db /\ notified' = notified ]_vars

\* a pass is asleep without a listing, with a new file it had scanned and
\* no record or notification for it
C20_Witness ==
    \E i \in Workers :
        /\ Done(i)
        /\ dbi[i] = EmptyMap /\ notified[i] = EmptyMap
        /\ \E p \in DOMAIN ftc[i] : p \notin DOMAIN TableOf(i)

\* monitor thread i is inside scan_and_process_directory
InPass(i) == pc[i] \in {"stat", "list", "run"}

\* C14 (Sequential passes per directory), as claimed: for any watched
\* directory at most one reconciliation pass is in progress at any time,
\* whatever the list of arguments, a directory given more than once
\* included: no two monitor threads of the same directory are inside a pass
\* together.
C14_OnePassPerDirectory ==
    \A i, j \in Workers :
        (i # j /\ argv[i] = argv[j]) => ~(InPass(i) /\ InPass(j))

\* C16 (Startup failure is fatal with non-zero status), as claimed: when
\* the main thread has ended because the database directory could not be
\* created or the connection could not be opened, the exit status is not 0
\* and no monitor thread was started.
C16_StartupFailureIsFatal ==
    mpc \in {"exit_makedirs", "exit_connect"} =>
        /\ exit_status # 0
        /\ \A i \in Workers : pc[i] = "none"

\* C17 (Directory validation at entry): the main thread turns to a
\* directory (table creation, population, thread start, in that order and
\* for the argument in hand) only after os.path.isdir answered True for
\* it; an argument for which it answered False is passed over in one step
\* that changes no table and starts no thread; a monitor thread is started
\* only by the main thread, for the argument in hand; and after the last
\* argument the main thread supervises only if some thread was started,
\* and otherwise ends with exit status 1.
C17_DirectoryValidation ==
    [][ /\ mpc' = "init" =>
             \/ mpc = "init"
             \/ /\ mpc = "next" /\ mi \in Workers /\ mi' = mi
                /\ rootExists[argv[mi]]
        /\ mpc' = "populate" => mpc \in {"init", "populate"} /\ mi' = mi
        /\ mpc' = "popfile" => mpc \in {"populate", "popfile"} /\ mi' = mi
        /\ mpc' = "start" => mpc \in {"populate", "popfile", "start"} /\ mi' = mi
        /\ (mpc = "next" /\ mi \in Workers /\ ~rootExists[argv[mi]]
               /\ (mpc' # "next" \/ mi' > mi)) =>
                  /\ mpc' = "next" /\ mi' = mi + 1
                  /\ db' = db /\ pc' = pc /\ notified' = notified
        /\ \A i \in Workers :
              (pc[i] = "none" /\ pc'[i] # "none") => mpc = "start" /\ mi = i
        /\ mpc' = "supervise" => \E i \in Workers : pc'[i] # "none"
        /\ (mpc = "next" /\ mi > Len(argv) /\ mpc' # "next") =>
              IF \A i \in Workers : pc[i] = "none"
              THEN mpc' = "exited" /\ exit_status' = 1
              ELSE mpc' = "supervise" ]_vars

\* the first argument was not a directory and has no thread, the second
\* has its thread, and the main thread supervises
C17_Witness ==
    /\ Len(argv) = 2
    /\ mpc = "supervise"
    /\ pc[1] = "none" /\ pc[2] # "none"

\* the threads that are inside a with db_lock block
InsideStore == { t \in DOMAIN at : at[t].inside }

C18_MutualExclusion == Cardinality(InsideStore) <= 1

\* the main thread is inside a store call of its startup while a monitor
\* thread is at a store call of its pass, outside
C18_Witness ==
    /\ at[MainThread].inside
    /\ \E i \in 1..2 : at[i].op \in StoreCalls /\ ~at[i].inside

\* C19 (Lock scope): the thread that holds db_lock is inside one store
\* call, so no thread holds it while it walks, stats, notifies or sleeps;
\* when no thread is inside a store call the lock is free, whether the
\* last call succeeded or failed; hence a thread at a store call finds the
\* lock free whenever the other threads are all outside store calls,
\* however long they stay where they are.
C19_LockScope ==
    /\ \A t \in DOMAIN at :
           lock = t => at[t].inside /\ at[t].op \in StoreCalls
    /\ InsideStore = {} => lock = Free
    /\ \A t \in DOMAIN at :
           at[t].op \notin StoreCalls => ~at[t].inside /\ lock # t

\* one monitor thread is in the notifier and the other is inside a store
\* call meanwhile
C19_Witness ==
    \E t, u \in 1..2 :
        /\ at[t].op = "process_item_library"
        /\ at[u].inside /\ lock = u

C22_NoMissedEvents ==
    \A m \in 1..MaxMtime :
        (/\ pc[1] # "none"
         /\ getmtime(DirM, join(DirM, FileA)) = m
         /\ Get(TableOf(1), join(DirM, FileA)) # m)
        ~> (\/ getmtime(DirM, join(DirM, FileA)) # m
            \/ /\ Get(TableOf(1), join(DirM, FileA)) = m
               /\ Count(1, join(DirM, FileA)) >= 1)

\* C23 (Notify always returns), as claimed: a notifier call that was made
\* returns, a pass that started reaches the interval sleep, and the sleep
\* is followed by the next tick.
C23_NotifyAlwaysReturns ==
    /\ (pc[1] = "waiting") ~> (pc[1] # "waiting")
    /\ (pc[1] \in {"stat", "list", "run", "waiting"}) ~> (pc[1] = "sleep")
    /\ (pc[1] = "sleep") ~> (pc[1] = "walk")

\* the message of Timer t was handed to send_telegram_message
HasSent(t) == hook.timers[t].st \in {"sending", "finished", "failed"}

\* the relay is at rest: every request answered, no Timer waiting or in its
\* callback
Quiescent ==
    /\ \A c \in DOMAIN hook.calls : hook.calls[c].pc = "done"
    /\ \A t \in DOMAIN hook.timers :
          hook.timers[t].st \notin {"waiting", "sending"}

\* a request is inside schedule_message for the item, past the check
Scheduling(item_id) ==
    \E c \in DOMAIN hook.calls :
        hook.calls[c].item = item_id /\ hook.calls[c].pc \in {"cancel", "install"}

\* the Timers made for the item
TimersOf(item_id) ==
    { t \in DOMAIN hook.timers : hook.timers[t].item = item_id }

\* C24 (Webhook per-item debounce), as claimed: with one recipient, of two
\* messages for the same item id scheduled less than MESSAGE_DELAY apart the
\* earlier one is never sent; a Timer is cancelled only for another event of
\* its own item id; and once the relay is at rest every message that was
\* not followed within MESSAGE_DELAY by another for its item has been sent.
C24_PerItemDebounce ==
    Len(hook.admin_ids) = 1 =>
        /\ \A t, u \in DOMAIN hook.timers :
              (/\ t < u
               /\ hook.timers[t].item = hook.timers[u].item
               /\ hook.timers[u].born - hook.timers[t].born < MESSAGE_DELAY)
              => ~HasSent(t)
        /\ \A t \in DOMAIN hook.timers :
              hook.timers[t].st = "cancelled" =>
                  \E c \in DOMAIN hook.calls :
                      c # hook.timers[t].ev
                      /\ hook.calls[c].item = hook.timers[t].item
        /\ Quiescent =>
              \A t \in DOMAIN hook.timers :
                  (\A u \in TimersOf(hook.timers[t].item) :
                       u > t => hook.timers[u].born - hook.timers[t].born
                                    > MESSAGE_DELAY)
                  => HasSent(t)

\* C25 (Webhook fan-out), as claimed: once the relay is at rest, an event
\* that was the only one for its item id has had its message sent to every
\* configured admin, and every cancelled message was replaced by a later one
\* for the same admin.
C25_FanOut ==
    Quiescent =>
        /\ \A c \in DOMAIN hook.calls :
              (\A d \in DOMAIN hook.calls :
                   d # c => hook.calls[d].item # hook.calls[c].item)
              => \A k \in DOMAIN hook.admin_ids :
                     \E t \in DOMAIN hook.timers :
                         /\ hook.timers[t].ev = c
                         /\ hook.timers[t].send_id = hook.admin_ids[k]
                         /\ HasSent(t)
        /\ \A t \in DOMAIN hook.timers :
              hook.timers[t].st = "cancelled" =>
                  \E u \in TimersOf(hook.timers[t].item) :
                      u > t /\ hook.timers[u].send_id = hook.timers[t].send_id

\* C26 (Webhook debounce cache consistency), as claimed: outside
\* schedule_message, message_cache has an entry for an item id exactly when
\* a Timer made for it waits or runs its callback, and the entry is the
\* Timer made last for it; the del of a callback never raises KeyError; and
\* a callback that ends removes the entry that holds its own Timer.
C26_CacheConsistency ==
    /\ [](\A item_id \in ItemIds :
            ~Scheduling(item_id) =>
                /\ item_id \in DOMAIN hook.message_cache
                     <=> \E t \in TimersOf(item_id) :
                             hook.timers[t].st \in {"waiting", "sending"}
                /\ item_id \in DOMAIN hook.message_cache =>
                     \A t \in TimersOf(item_id) :
                         t <= hook.message_cache[item_id])
    /\ [](\A t \in DOMAIN hook.timers : hook.timers[t].st # "failed")
    /\ [][ \A t \in DOMAIN hook.timers :
             (hook.timers[t].st = "sending" /\ hook'.timers[t].st = "finished")
             => hook.message_cache[hook.timers[t].item] = t ]_vars

====
